---- MODULE Spec2Model ----
(***************************************************************************)
(* Model of streamlit_app.py: the quantity extractor, the price/VAT        *)
(* extractor, the per-coin wrapper and the batch comparison loop.          *)
(*                                                                         *)
(* Texts are sequences of one-character strings, so that the regular       *)
(* expressions of the source are modelled by what they match.  Prices are  *)
(* kept in pence (two decimals of a pound), per-coin prices as fractions   *)
(* num/den of pence.                                                       *)
(***************************************************************************)
EXTENDS Integers, Sequences, FiniteSets, TLC

VARIABLES
    pc,          \* position of the running specification
    text,        \* extract_quantity: its argument
    qty,         \* extract_quantity: its return value
    resp,        \* extract_price_info: what requests.get(url) produces
    prefer_vat,  \* extract_price_info: its prefer_vat argument
    candidates,  \* extract_price_info: the local list `candidates`
    info,        \* extract_price_info: the returned (price, quantity)
    unit,        \* extract_price_from_url: its return value
    df,          \* batch loop: the uploaded table
    ci,          \* batch loop: index of the column being visited
    ki,          \* batch loop: index of the next competitor url
    gc_price,    \* batch loop: the local gc_price
    results,     \* batch loop: the list `results`
    fetched      \* batch loop: log of the urls handed to extract_price_from_url

vars == <<pc, text, qty, resp, prefer_vat, candidates, info, unit,
          df, ci, ki, gc_price, results, fetched>>

qtyVars == <<text, qty>>
priceVars == <<resp, prefer_vat, candidates, info, unit>>
batchVars == <<df, ci, ki, gc_price, results, fetched>>

----------------------------------------------------------------------------
(* Characters and character classes of Python's re module.                 *)

Digits == {"0", "1", "2", "3", "4", "5", "6", "7", "8", "9"}

\* \d
IsDigit(c) == c \in Digits

\* \s
IsSpace(c) == c \in {" ", "\t", "\n"}

\* str.lower() / re.I on the letters the model's texts use in upper case
LowerChar(c) ==
    CASE c = "B" -> "b"
      [] c = "C" -> "c"
      [] c = "M" -> "m"
      [] c = "P" -> "p"
      [] c = "T" -> "t"
      [] c = "V" -> "v"
      [] c = "A" -> "a"
      [] c = "X" -> "x"
      [] c = "G" -> "g"
      [] c = "S" -> "s"
      [] c = "R" -> "r"
      [] OTHER -> c

Lower(t) == [i \in 1..Len(t) |-> LowerChar(t[i])]

DigitVal(c) ==
    CASE c = "0" -> 0 [] c = "1" -> 1 [] c = "2" -> 2 [] c = "3" -> 3
      [] c = "4" -> 4 [] c = "5" -> 5 [] c = "6" -> 6 [] c = "7" -> 7
      [] c = "8" -> 8 [] c = "9" -> 9

\* int(s) on a string of decimal digits
RECURSIVE DecVal(_)
DecVal(s) ==
    IF s = <<>> THEN 0
    ELSE DecVal(SubSeq(s, 1, Len(s) - 1)) * 10 + DigitVal(s[Len(s)])

\* t[i..j] of a text, empty when i > j
Slice(t, i, j) == SubSeq(t, i, j)

\* length of the run of digits / whitespace / non-digits of t that starts at i
RECURSIVE DigitRun(_, _)
DigitRun(t, i) ==
    IF i > Len(t) \/ ~IsDigit(t[i]) THEN 0 ELSE 1 + DigitRun(t, i + 1)

RECURSIVE SpaceRun(_, _)
SpaceRun(t, i) ==
    IF i > Len(t) \/ ~IsSpace(t[i]) THEN 0 ELSE 1 + SpaceRun(t, i + 1)

RECURSIVE NonDigitRun(_, _)
NonDigitRun(t, i) ==
    IF i > Len(t) \/ IsDigit(t[i]) THEN 0 ELSE 1 + NonDigitRun(t, i + 1)

\* the literal w occurs in t at position i
LitAt(t, i, w) ==
    /\ i >= 1
    /\ i + Len(w) - 1 <= Len(t)
    /\ \A k \in 1..Len(w) : t[i + k - 1] = w[k]

\* `w in t`
Contains(t, w) == \E i \in 1..Len(t) : LitAt(t, i, w)

\* `w in t.lower()` / re.compile(w, re.I).search(t), for a lower-case w
ContainsNoCase(t, w) == Contains(Lower(t), w)

MinOf(S) == CHOOSE x \in S : \A y \in S : x <= y
MaxOf(S) == CHOOSE x \in S : \A y \in S : x >= y

----------------------------------------------------------------------------
(* extract_quantity                                                        *)

\* the alternatives of (?:coins?|pcs|pieces|units)
UnitWords == {
    <<"c","o","i","n","s">>, <<"c","o","i","n">>, <<"p","c","s">>,
    <<"p","i","e","c","e","s">>, <<"u","n","i","t","s">> }

\* the alternatives of (?:pack|tube|box|monster box|roll)
PackWords == {
    <<"p","a","c","k">>, <<"t","u","b","e">>, <<"b","o","x">>,
    <<"m","o","n","s","t","e","r"," ","b","o","x">>, <<"r","o","l","l">> }

\* {1,3} of (\d{1,3})
MaxQtyDigits == 3

\* {0,10} of [^\d]{0,10}
MaxGap == 10

NoMatch == <<>>

\* The matches of pattern 1 that start at i, as the number d of captured
\* digits: (\d{1,3})\s*(?:coins?|pcs|pieces|units)
Pat1At(t, i) ==
    IF ~IsDigit(t[i]) THEN {}
    ELSE { d \in 1..MaxQtyDigits :
            /\ d <= DigitRun(t, i)
            /\ \E k \in 0..SpaceRun(t, i + d) :
                  \E w \in UnitWords : LitAt(t, i + d + k, w) }

\* (\d{1,3}) tried at each position of P: <<position, number of digits>>
CapturesAt(t, P) ==
    UNION { { <<p, d>> : d \in { e \in 1..MaxQtyDigits : e <= DigitRun(t, p) } } :
            p \in P }

\* The matches of pattern 2 that start at i, as <<first captured position,
\* number of captured digits>>: (?:pack|tube|box|monster box|roll)[^\d]{0,10}(\d{1,3})
Pat2At(t, i) ==
    UNION { CapturesAt(t, { q \in (i + Len(w))..(i + Len(w) + MaxGap) :
                               q - (i + Len(w)) <= NonDigitRun(t, i + Len(w)) }) :
            w \in { v \in PackWords : LitAt(t, i, v) } }

\* The matches of pattern 3 that start at i: x\s?(\d{1,3})
Pat3At(t, i) ==
    IF ~LitAt(t, i, <<"x">>) THEN {}
    ELSE CapturesAt(t, { q \in {i + 1, i + 2} :
                           q = i + 2 => (i + 1 <= Len(t) /\ IsSpace(t[i + 1])) })

\* re.search(patterns[0], text, re.I).group(1): leftmost start, greedy digits
Search1(t) ==
    LET starts == { i \in 1..Len(t) : Pat1At(t, i) # {} }
    IN  IF starts = {} THEN NoMatch
        ELSE LET i == MinOf(starts)
                 d == MaxOf(Pat1At(t, i))
             IN  Slice(t, i, i + d - 1)

\* Greedy choice among the matches at one start: the longest gap, then the
\* most digits.
Greedy(M) ==
    LET p == MaxOf({ m[1] : m \in M })
        d == MaxOf({ m[2] : m \in { n \in M : n[1] = p } })
    IN  <<p, d>>

\* re.search(patterns[1], text, re.I): where group 1 starts and how many
\* digits it holds
Match2(t) ==
    LET starts == { i \in 1..Len(t) : Pat2At(t, i) # {} }
    IN  IF starts = {} THEN NoMatch ELSE Greedy(Pat2At(t, MinOf(starts)))

\* re.search(patterns[1], text, re.I).group(1)
Search2(t) ==
    LET m == Match2(t)
    IN  IF m = NoMatch THEN NoMatch ELSE Slice(t, m[1], m[1] + m[2] - 1)

\* re.search(patterns[2], text, re.I).group(1)
Search3(t) ==
    LET starts == { i \in 1..Len(t) : Pat3At(t, i) # {} }
    IN  IF starts = {} THEN NoMatch
        ELSE LET m == Greedy(Pat3At(t, MinOf(starts)))
             IN  Slice(t, m[1], m[1] + m[2] - 1)

\* The three patterns are lower case and are searched with re.I: the Search
\* operators are applied to the lower-cased text.

\* the list `patterns`, by position
NumPatterns == 3

\* the packaging pattern listed before the count pattern
PatternSearch_Reordered(k, t) ==
    CASE k = 1 -> Search2(t)
      [] k = 2 -> Search1(t)
      [] k = 3 -> Search3(t)

PatternSearch(k, t) ==
    CASE k = 1 -> Search1(t)
      [] k = 2 -> Search2(t)
      [] k = 3 -> Search3(t)

\* if 1 < qty < 1000
QtyInRange(q) == 1 < q /\ q < 1000

\* for pat in patterns: ... return qty ... ; return 1
RECURSIVE QtyLoop(_, _)
QtyLoop(t, k) ==
    IF k > NumPatterns THEN 1
    ELSE LET m == PatternSearch(k, t)
         IN  IF m # NoMatch /\ QtyInRange(DecVal(m)) THEN DecVal(m)
             ELSE QtyLoop(t, k + 1)

extract_quantity(t) == QtyLoop(Lower(t), 1)

----------------------------------------------------------------------------
(* extract_price_info                                                      *)

\* (None, 1), and None of the wrapper
NoInfo == [present |-> FALSE, price |-> 0, quantity |-> 1]
NoUnit == [present |-> FALSE, num |-> 0, den |-> 1, raw |-> FALSE]

\* (?:,\d{3})+ counted greedily from position p
RECURSIVE GroupRun(_, _)
GroupRun(t, p) ==
    IF p <= Len(t) /\ t[p] = "," /\ DigitRun(t, p + 1) >= 3
    THEN 1 + GroupRun(t, p + 4)
    ELSE 0

\* price_regex matched at position i: £\s*((?:\d{1,3}(?:,\d{3})+|\d+)(?:\.\d{2})?)
\* The result is [from |-> first position of group 1, to |-> last position of
\* the match], or NoMatch.  \s* can only succeed on the whole run of
\* whitespace, since a digit has to follow it.
PriceMatchAt(t, i) ==
    IF i > Len(t) \/ t[i] # "£" THEN NoMatch
    ELSE LET j == i + 1 + SpaceRun(t, i + 1)
             r == DigitRun(t, j)
             grouped == r >= 1 /\ r <= 3 /\ GroupRun(t, j + r) >= 1
             intEnd == IF grouped THEN j + r + 4 * GroupRun(t, j + r) ELSE j + r
             hasDec == /\ intEnd <= Len(t)
                       /\ t[intEnd] = "."
                       /\ DigitRun(t, intEnd + 1) >= 2
         IN  IF r = 0 THEN NoMatch
             ELSE [from |-> j, to |-> IF hasDec THEN intEnd + 2 ELSE intEnd - 1]

\* price_regex.finditer(t) from position pos on: the non-overlapping matches,
\* leftmost first, each with the position of its pound sign
RECURSIVE FindIter(_, _)
FindIter(t, pos) ==
    IF pos > Len(t) THEN <<>>
    ELSE LET m == PriceMatchAt(t, pos)
         IN  IF m = NoMatch THEN FindIter(t, pos + 1)
             ELSE <<[start |-> pos, from |-> m.from, to |-> m.to]>>
                      \o FindIter(t, m.to + 1)

\* s.replace(",", "")
RECURSIVE DropCommas(_)
DropCommas(s) ==
    IF s = <<>> THEN <<>>
    ELSE IF Head(s) = "," THEN DropCommas(Tail(s))
    ELSE <<Head(s)>> \o DropCommas(Tail(s))

\* float(m.group(1).replace(",", "")), in pence
Pence(g) ==
    LET s == DropCommas(g)
        n == Len(s)
    IN  IF n >= 3 /\ s[n - 2] = "."
        THEN DecVal(SubSeq(s, 1, n - 3)) * 100 + DecVal(SubSeq(s, n - 1, n))
        ELSE DecVal(s) * 100

Vat == <<"v", "a", "t">>

\* re.compile("price", re.I)
PriceWord == <<"p", "r", "i", "c", "e">>

AttrMatches(a) == ContainsNoCase(a, PriceWord)

\* soup.find_all(True, {"class": re.compile("price", re.I),
\*                      "id": re.compile("price", re.I)}): the positions of the
\* elements it returns, in document order
FindAllPrice(doc) ==
    { e \in 1..Len(doc) : AttrMatches(doc[e].cls) /\ AttrMatches(doc[e].id) }

\* the structured pass over the elements e..Len(doc)
RECURSIVE StructuredFrom(_, _)
StructuredFrom(doc, e) ==
    IF e > Len(doc) THEN <<>>
    ELSE LET t == doc[e].text
             ms == FindIter(t, 1)
             here == IF e \in FindAllPrice(doc) /\ ms # <<>>
                     THEN <<[p |-> Pence(Slice(t, ms[1].from, ms[1].to)),
                             vat |-> ContainsNoCase(t, Vat)]>>
                     ELSE <<>>
         IN  here \o StructuredFrom(doc, e + 1)

\* the width of the window the unstructured pass inspects on each side
VatWindow == 30

\* the unstructured pass over the matches k..Len(ms) of the page text
RECURSIVE UnstructuredFrom(_, _, _)
UnstructuredFrom(t, ms, k) ==
    IF k > Len(ms) THEN <<>>
    ELSE LET m == ms[k]
             lo == IF m.start - VatWindow > 1 THEN m.start - VatWindow ELSE 1
             hi == IF m.to + VatWindow < Len(t) THEN m.to + VatWindow ELSE Len(t)
         IN  <<[p |-> Pence(Slice(t, m.from, m.to)),
                vat |-> ContainsNoCase(Slice(t, lo, hi), Vat)]>>
                 \o UnstructuredFrom(t, ms, k + 1)

\* str.strip()
RECURSIVE StripLeft(_)
StripLeft(t) ==
    IF t # <<>> /\ IsSpace(Head(t)) THEN StripLeft(Tail(t)) ELSE t

RECURSIVE StripRight(_)
StripRight(t) ==
    IF t # <<>> /\ IsSpace(t[Len(t)]) THEN StripRight(SubSeq(t, 1, Len(t) - 1))
    ELSE t

Strip(t) == StripRight(StripLeft(t))

\* soup.get_text(" ", strip=True) from element e on: the stripped non-empty
\* strings of the document joined by one blank
RECURSIVE GetTextFrom(_, _)
GetTextFrom(doc, e) ==
    IF e > Len(doc) THEN <<>>
    ELSE LET here == Strip(doc[e].text)
             rest == GetTextFrom(doc, e + 1)
         IN  IF here = <<>> THEN rest
             ELSE IF rest = <<>> THEN here
             ELSE here \o <<" ">> \o rest

GetText(doc) == GetTextFrom(doc, 1)

\* candidates, as built by the two passes
Candidates(doc) ==
    LET t == GetText(doc)
    IN  StructuredFrom(doc, 1) \o UnstructuredFrom(t, FindIter(t, 1), 1)

\* max(...) and min(...) over a non-empty list, left to right
RECURSIVE ListMax(_)
ListMax(s) ==
    IF Len(s) = 1 THEN s[1]
    ELSE LET r == ListMax(Tail(s)) IN IF r > s[1] THEN r ELSE s[1]

RECURSIVE ListMin(_)
ListMin(s) ==
    IF Len(s) = 1 THEN s[1]
    ELSE LET r == ListMin(Tail(s)) IN IF r < s[1] THEN r ELSE s[1]

\* [p for p, vat in candidates if vat]
RECURSIVE VatPrices(_)
VatPrices(c) ==
    IF c = <<>> THEN <<>>
    ELSE (IF Head(c).vat THEN <<Head(c).p>> ELSE <<>>) \o VatPrices(Tail(c))

AllPrices(c) == [k \in 1..Len(c) |-> c[k].p]

\* a selection that prefers the maximum without looking at the VAT flags
SelectPrice_IgnoresVat(c, pv) ==
    IF pv THEN ListMax(AllPrices(c)) ELSE ListMin(AllPrices(c))

\* the selection of lines 59-66
SelectPrice(c, pv) ==
    LET vat_prices == VatPrices(c)
    IN  IF pv
        THEN IF vat_prices # <<>> THEN ListMax(vat_prices)
             ELSE ListMax(AllPrices(c))
        ELSE ListMin(AllPrices(c))

\* the fetch and the parse raise: requests.get on a transport error or a
\* timeout, BeautifulSoup on content it rejects.  A response is returned
\* whatever its status.
Raises(r) == r.kind = "error" \/ ~r.parses

\* the list `candidates` when the function returns
CandidatesOf(r) == IF Raises(r) THEN <<>> ELSE Candidates(r.doc)

\* lines 56-71, given the list the two passes built
InfoFrom(r, c, pv) ==
    IF Raises(r) \/ c = <<>> THEN NoInfo
    ELSE [present |-> TRUE,
          price |-> SelectPrice(c, pv),
          quantity |-> extract_quantity(GetText(r.doc))]

extract_price_info(r, pv) == InfoFrom(r, CandidatesOf(r), pv)

\* max(qty, 1)
Divisor(q) == IF q > 1 THEN q ELSE 1

\* a wrapper that returns the total price undivided
PerCoin_Undivided(i) ==
    IF ~i.present THEN NoUnit
    ELSE [present |-> TRUE, num |-> i.price, den |-> 1, raw |-> FALSE]

\* lines 76-81 of extract_price_from_url, on the tuple extract_price_info
\* returned; a division by zero raises and the raw price is returned
PerCoin(i) ==
    IF ~i.present THEN NoUnit
    ELSE IF Divisor(i.quantity) = 0
    THEN [present |-> TRUE, num |-> i.price, den |-> 1, raw |-> TRUE]
    ELSE [present |-> TRUE, num |-> i.price, den |-> Divisor(i.quantity),
          raw |-> FALSE]

extract_price_from_url(r, pv) == PerCoin(extract_price_info(r, pv))

----------------------------------------------------------------------------
(* Specification SpecQty: extract_quantity applied to bounded page texts.  *)

\* the words page texts are built from
QtyTokens == {
    <<"1">>, <<"5">>, <<"2","0">>, <<"1","2","0","0">>,
    <<" ","c","o","i","n">>, <<"C","o","i","n","s">>, <<"p","c","s">>,
    <<" ","p","i","e","c","e">>, <<" ","p","i","e","c","e","s">>,
    <<" ","u","n","i","t">>, <<"u","n","i","t","s">>,
    <<"B","o","x"," ","o","f"," ">>, <<"T","u","b","e"," ">>,
    <<"B","u","y"," ","n","o","w"," ","x">>,
    <<" ","r","o","u","n","d","s"," ">>,
    <<"o","z"," ","G","o","l","d"," ","B","r","i","t","a","n","n","i","a"," ">> }

\* a text has at most this many words
MaxTokens == 3

RECURSIVE Concat(_)
Concat(ws) == IF ws = <<>> THEN <<>> ELSE Head(ws) \o Concat(Tail(ws))

TokenSeqs(T, n) == UNION { [1..k -> T] : k \in 0..n }

QtyTexts == { Concat(ws) : ws \in TokenSeqs(QtyTokens, MaxTokens) }

NoResp == [kind |-> "none"]

IdlePrice ==
    /\ resp = NoResp /\ prefer_vat = FALSE /\ candidates = <<>>
    /\ info = NoInfo /\ unit = NoUnit

IdleBatch ==
    /\ df = <<>> /\ ci = 0 /\ ki = 0 /\ gc_price = NoUnit
    /\ results = <<>> /\ fetched = <<>>

QtyInit ==
    /\ pc = "qty_call"
    /\ text \in QtyTexts
    /\ qty = 0
    /\ IdlePrice /\ IdleBatch

\* qty = extract_quantity(text)
ExtractQuantity ==
    /\ pc = "qty_call"
    /\ qty' = extract_quantity(text)
    /\ pc' = "qty_done"
    /\ UNCHANGED <<text, priceVars, batchVars>>

QtyNext == ExtractQuantity

SpecQty == QtyInit /\ [][QtyNext]_vars

----------------------------------------------------------------------------
(* Specification SpecPrice: extract_price_from_url on bounded fetch        *)
(* outcomes, in its two steps: the call of extract_price_info (line 75)    *)
(* and the division (lines 76-81).                                         *)

\* 31 characters without digit, blank or "vat"
Filler == [k \in 1..31 |-> "a"]

\* the words element texts are built from
PriceTokens == {
    <<"£"," ","1","0","0">>,
    <<"£","1","2","0",".","0","0"," ","i","n","c"," ","V","A","T">>,
    <<"£","5","0","0"," ","T","u","b","e"," ","o","f"," ","2","0"," ">>,
    Filler }

\* the values of a class attribute and of an id attribute; <<>>: no attribute
ClassValues == { <<>>, <<"P","r","i","c","e","-","b","o","x">> }
IdValues == { <<"s","k","u">>, <<"p","r","i","c","e">> }

\* an element text has at most this many words
MaxElemTokens == 2

\* a document has at most this many elements
MaxElems == 2

ElemTexts == { Concat(ws) : ws \in TokenSeqs(PriceTokens, MaxElemTokens) }

Elements == [cls : ClassValues, id : IdValues, text : ElemTexts]

Docs == UNION { [1..n -> Elements] : n \in 0..MaxElems }

\* HTTP statuses a response carries
Statuses == {200, 404}

Responses ==
    { [kind |-> "error", why |-> w, status |-> 0, parses |-> TRUE, doc |-> <<>>] :
        w \in {"network", "timeout"} }
    \cup { [kind |-> "http", why |-> "", status |-> st, parses |-> FALSE,
            doc |-> <<>>] : st \in Statuses }
    \cup { [kind |-> "http", why |-> "", status |-> st, parses |-> TRUE,
            doc |-> d] : st \in Statuses, d \in Docs }

IdleQty == text = <<>> /\ qty = 0

PriceInit ==
    /\ pc = "price_call"
    /\ resp \in Responses
    /\ prefer_vat \in BOOLEAN
    /\ candidates = <<>>
    /\ info = NoInfo
    /\ unit = NoUnit
    /\ IdleQty /\ IdleBatch

\* price, qty = extract_price_info(url, prefer_vat=prefer_vat)
ExtractPriceInfo ==
    /\ pc = "price_call"
    /\ candidates' = CandidatesOf(resp)
    /\ info' = InfoFrom(resp, candidates', prefer_vat)
    /\ pc' = "price_info"
    /\ UNCHANGED <<resp, prefer_vat, unit, qtyVars, batchVars>>

\* if price is None: return None ... return price / max(qty, 1)
ExtractPriceFromUrl ==
    /\ pc = "price_info"
    /\ unit' = PerCoin(info)
    /\ pc' = "price_done"
    /\ UNCHANGED <<resp, prefer_vat, candidates, info, qtyVars, batchVars>>

PriceNext == ExtractPriceInfo \/ ExtractPriceFromUrl

SpecPrice == PriceInit /\ [][PriceNext]_vars

----------------------------------------------------------------------------
(* The batch loop of lines 109-139 over an uploaded table.                 *)

\* what the cells of a table hold; Empty is a missing value (NaN).  The
\* loop hands a cell to requests.get as it is, so cells are kept whole.
Empty == ""
Label == "GoldCore"
UrlPair == "http://shop/pair"
UrlFree == "http://shop/free"

CellValues == {Empty, Label, UrlPair, UrlFree}

\* The column names of a table.  read_csv gives str names; read_excel gives
\* the header cell as it is, an int for a cell that holds a number.
Headers == {
    [str |-> TRUE, name |-> <<" ","G","o","l","d"," ">>],
    [str |-> TRUE, name |-> <<"S","i","l","v","e","r">>],
    [str |-> FALSE, name |-> <<"2","0","2","4">>] }

\* col.strip() raises AttributeError for a column name that is no str
StripRaises(header) == ~header.str

Priced == <<"P","r","i","c","e">>

\* The pages behind the urls.  The pair page lists a tube of 20 at 100 pounds
\* and, further than the window away, at 120.00 including VAT; the free page
\* shows an empty basket of 0.00 and a recommended price of 1,250.50 with VAT.
PairPage == <<
    [cls |-> Priced, id |-> Priced,
     text |-> <<"£"," ","1","0","0"," ","T","u","b","e"," ","o","f"," ","2","0">>],
    [cls |-> <<>>, id |-> <<>>, text |-> Filler],
    [cls |-> Priced, id |-> <<>>,
     text |-> <<"£","1","2","0",".","0","0"," ","i","n","c"," ","V","A","T">>] >>

FreePage == <<
    [cls |-> <<>>, id |-> <<>>,
     text |-> <<"B","a","s","k","e","t"," ","£","0",".","0","0">>],
    [cls |-> <<>>, id |-> <<>>, text |-> Filler],
    [cls |-> <<>>, id |-> Priced,
     text |-> <<"R","R","P"," ","£","1",",","2","5","0",".","5","0"," ",
                "V","A","T">>] >>

\* requests.get(url, ...): a cell that is no url raises (no schema), the two
\* urls answer with status 200
Fetch(u) ==
    IF u = UrlPair
    THEN [kind |-> "http", why |-> "", status |-> 200, parses |-> TRUE,
          doc |-> PairPage]
    ELSE IF u = UrlFree
    THEN [kind |-> "http", why |-> "", status |-> 200, parses |-> TRUE,
          doc |-> FreePage]
    ELSE [kind |-> "error", why |-> "network", status |-> 0, parses |-> TRUE,
          doc |-> <<>>]

\* extract_price_from_url of the cell values, under both modes
PairPlain == extract_price_from_url(Fetch(UrlPair), FALSE)
PairVat == extract_price_from_url(Fetch(UrlPair), TRUE)
FreePlain == extract_price_from_url(Fetch(UrlFree), FALSE)
FreeVat == extract_price_from_url(Fetch(UrlFree), TRUE)
LabelPlain == extract_price_from_url(Fetch(Label), FALSE)
LabelVat == extract_price_from_url(Fetch(Label), TRUE)

Scraped(u, pv) ==
    CASE u = UrlPair -> IF pv THEN PairVat ELSE PairPlain
      [] u = UrlFree -> IF pv THEN FreeVat ELSE FreePlain
      [] u = Label -> IF pv THEN LabelVat ELSE LabelPlain

\* df[col].dropna(): the rows of the non-empty cells, in order
RECURSIVE DropNaFrom(_, _)
DropNaFrom(cells, r) ==
    IF r > Len(cells) THEN <<>>
    ELSE (IF cells[r] = Empty THEN <<>> ELSE <<r>>) \o DropNaFrom(cells, r + 1)

DropNa(cells) == DropNaFrom(cells, 1)

\* the reference url taken from the first non-empty cell
GcPos_First(rows) == 1

\* urls[1], as a position of the list urls (which TLA+ counts from 1)
GcPos(rows) == 2

\* urls[2:], as positions of the list urls
CompetitorPos(rows) == 3..Len(rows)

\* "silver" in product.lower(), product = col.strip()
Silver == <<"s","i","l","v","e","r">>
UseVat(header) == ContainsNoCase(Strip(header.name), Silver)

\* `not gc_price`, `if comp_price`: None and 0.0 are both false
Truthy(p) == p.present /\ p.num # 0

\* round(n / d, 0) for d > 0, halves to the even neighbour
RoundDiv(n, d) ==
    LET q == n \div d
        r == n % d
    IN  IF 2 * r < d THEN q
        ELSE IF 2 * r > d THEN q + 1
        ELSE IF q % 2 = 0 THEN q ELSE q + 1

\* greatest common divisor of a >= 0 and b > 0; fractions are reduced before
\* they are scaled, to stay within the model checker's integers
RECURSIVE Gcd(_, _)
Gcd(a, b) == IF b = 0 THEN a ELSE Gcd(b, a % b)

Abs(n) == IF n < 0 THEN -n ELSE n

\* round(scale * n / d, 0) for d > 0
RoundScaled(scale, n, d) ==
    LET g == Gcd(d, Abs(n))
    IN  RoundDiv(scale * (n \div g), d \div g)

NoNumber == [present |-> FALSE, v |-> 0]

\* round(comp_price - gc_price, 2) if comp_price else None, in pence
Difference(comp, gc) ==
    IF Truthy(comp)
    THEN [present |-> TRUE,
          v |-> RoundScaled(1, comp.num * gc.den - gc.num * comp.den,
                            comp.den * gc.den)]
    ELSE NoNumber

\* round(((comp_price - gc_price) / gc_price) * 100, 2) if comp_price else
\* None, in hundredths of a percent
PctDifference(comp, gc) ==
    IF Truthy(comp)
    THEN [present |-> TRUE,
          v |-> RoundScaled(10000, comp.num * gc.den - gc.num * comp.den,
                            comp.den * gc.num)]
    ELSE NoNumber

\* the dict appended to results
Row(header, gc, comp, gcUrl, compUrl) ==
    [Product |-> Strip(header.name),
     GoldCorePrice |-> gc,
     CompetitorPrice |-> comp,
     Difference |-> Difference(comp, gc),
     PctDifference |-> PctDifference(comp, gc),
     GoldCoreURL |-> gcUrl,
     CompetitorURL |-> compUrl]

\* a table has at most this many columns and this many cells in all
MaxCols == 2
MaxCells == 5

\* the numbers of cells of the columns of a table, column by column
RECURSIVE Shapes(_, _)
Shapes(cols, cells) ==
    IF cols = 0 THEN { <<>> }
    ELSE { <<>> } \cup
         UNION { { <<n>> \o rest : rest \in Shapes(cols - 1, cells - n) } :
                 n \in 0..cells }

RECURSIVE Sum(_)
Sum(ns) == IF ns = <<>> THEN 0 ELSE Head(ns) + Sum(Tail(ns))

\* the table of the given shape with the given column names, whose cells are
\* those of content, column after column
MakeTable(shape, headers, content) ==
    [c \in 1..Len(shape) |->
        [header |-> headers[c],
         cells |-> SubSeq(content, Sum(SubSeq(shape, 1, c - 1)) + 1,
                          Sum(SubSeq(shape, 1, c)))]]

BatchInit ==
    /\ pc = "batch_loop"
    /\ \E shape \in Shapes(MaxCols, MaxCells) :
          \E headers \in [1..Len(shape) -> Headers] :
              \E content \in [1..Sum(shape) -> CellValues] :
                  df = MakeTable(shape, headers, content)
    /\ ci = 0
    /\ ki = 0
    /\ gc_price = NoUnit
    /\ results = <<>>
    /\ fetched = <<>>
    /\ IdleQty /\ IdlePrice

urls == DropNa(df[ci].cells)
NextUrls == DropNa(df[ci + 1].cells)

\* for col in df.columns: ... if len(urls) < 2: continue
SkipColumn ==
    /\ pc = "batch_loop"
    /\ ci < Len(df)
    /\ Len(NextUrls) < 2
    /\ ci' = ci + 1
    /\ UNCHANGED <<pc, df, ki, gc_price, results, fetched, qtyVars, priceVars>>

\* for col in df.columns: ... product = col.strip(); gc_url = urls[1];
\* competitor_urls = urls[2:]
EnterColumn ==
    /\ pc = "batch_loop"
    /\ ci < Len(df)
    /\ Len(NextUrls) >= 2
    /\ ~StripRaises(df[ci + 1].header)
    /\ ci' = ci + 1
    /\ pc' = "batch_gc"
    /\ UNCHANGED <<df, ki, gc_price, results, fetched, qtyVars, priceVars>>

\* for col in df.columns: ... product = col.strip() raises; nothing catches
\* the exception and the script stops
ColumnNameRaises ==
    /\ pc = "batch_loop"
    /\ ci < Len(df)
    /\ Len(NextUrls) >= 2
    /\ StripRaises(df[ci + 1].header)
    /\ ci' = ci + 1
    /\ pc' = "batch_crash"
    /\ UNCHANGED <<df, ki, gc_price, results, fetched, qtyVars, priceVars>>

\* gc_price = extract_price_from_url(gc_url); if not gc_price: ... continue
ScrapeGoldCore ==
    /\ pc = "batch_gc"
    /\ \E row \in { urls[GcPos(urls)] } :
          \E price \in { Scraped(df[ci].cells[row], FALSE) } :
              /\ gc_price' = price
              /\ fetched' = Append(fetched,
                                   [col |-> ci, row |-> row, role |-> "gc"])
              /\ IF Truthy(price)
                 THEN pc' = "batch_comp" /\ ki' = 1
                 ELSE pc' = "batch_loop" /\ ki' = ki
    /\ UNCHANGED <<df, ci, results, qtyVars, priceVars>>

\* the positions of competitor_urls within urls, in order
CompetitorRows(rows) ==
    [k \in 1..Cardinality(CompetitorPos(rows)) |->
        rows[MinOf(CompetitorPos(rows)) + k - 1]]

\* for comp_url in competitor_urls: comp_price = ...; results.append({...})
ScrapeCompetitor ==
    /\ pc = "batch_comp"
    /\ ki <= Len(CompetitorRows(urls))
    /\ \E row \in { CompetitorRows(urls)[ki] } :
          \E comp \in { Scraped(df[ci].cells[row], UseVat(df[ci].header)) } :
              /\ results' = Append(results,
                     Row(df[ci].header, gc_price, comp,
                         df[ci].cells[urls[GcPos(urls)]], df[ci].cells[row]))
              /\ fetched' = Append(fetched,
                                   [col |-> ci, row |-> row, role |-> "comp"])
    /\ ki' = ki + 1
    /\ UNCHANGED <<pc, df, ci, gc_price, qtyVars, priceVars>>

\* the competitor loop of a column ends
EndColumn ==
    /\ pc = "batch_comp"
    /\ ki > Len(CompetitorRows(urls))
    /\ pc' = "batch_loop"
    /\ UNCHANGED <<df, ci, ki, gc_price, results, fetched, qtyVars, priceVars>>

\* the loop over the columns ends
Finish ==
    /\ pc = "batch_loop"
    /\ ci = Len(df)
    /\ pc' = "batch_done"
    /\ UNCHANGED <<df, ci, ki, gc_price, results, fetched, qtyVars, priceVars>>

BatchNext ==
    \/ SkipColumn
    \/ EnterColumn
    \/ ColumnNameRaises
    \/ ScrapeGoldCore
    \/ ScrapeCompetitor
    \/ EndColumn
    \/ Finish

SpecBatch == BatchInit /\ [][BatchNext]_vars

----------------------------------------------------------------------------
(* Properties of extract_quantity, checked under SpecQty.                  *)

\* what pattern k captures in the text, as a number, and whether the loop
\* accepts it
Captured(k) ==
    LET t == Lower(text)
    IN  CASE k = 1 -> Search1(t) [] k = 2 -> Search2(t) [] k = 3 -> Search3(t)

Accepted(k) ==
    Captured(k) # NoMatch /\ DecVal(Captured(k)) \in 2..999

\* C3: the patterns are tried in the order count + unit word, packaging word
\* + number, x + number; the first whose captured number of its first match
\* lies in 2..999 gives the result, a pattern without match or with a number
\* out of range is passed over, and without an accepted number the result is
\* 1; the result is always in 1..999.
C3_PatternPriority ==
    pc = "qty_done" =>
        /\ qty \in 1..999
        /\ Accepted(1) => qty = DecVal(Captured(1))
        /\ ~Accepted(1) /\ Accepted(2) => qty = DecVal(Captured(2))
        /\ ~Accepted(1) /\ ~Accepted(2) /\ Accepted(3) => qty = DecVal(Captured(3))
        /\ ~Accepted(1) /\ ~Accepted(2) /\ ~Accepted(3) => qty = 1

\* C3 witness: the first two patterns both match, with different numbers in
\* range, and the number of the first is returned.
C3_Witness ==
    /\ pc = "qty_done"
    /\ Accepted(1) /\ Accepted(2)
    /\ DecVal(Captured(1)) # DecVal(Captured(2))
    /\ qty = DecVal(Captured(1))

\* the whole number that pattern 2 found digits of: the run of digits that
\* starts where its group starts
NumberAfterPackaging ==
    LET t == Lower(text)
        m == Match2(t)
    IN  DecVal(Slice(t, m[1], m[1] + DigitRun(t, m[1]) - 1))

\* C4: when the number written after a packaging word is outside 2..999 (as
\* in "Box of 1200 rounds") and no other pattern matches, the result is the
\* default 1, never a number made of the first digits of the longer number.
C4_LongNumberGivesDefault ==
    ( /\ pc = "qty_done"
      /\ Captured(1) = NoMatch
      /\ Captured(3) = NoMatch
      /\ Captured(2) # NoMatch
      /\ NumberAfterPackaging \notin 2..999 )
    => qty = 1

\* the unit words of the count pattern as the specification lists them
ListedUnitWords == {
    <<"c","o","i","n">>, <<"c","o","i","n","s">>, <<"p","c","s">>,
    <<"p","i","e","c","e">>, <<"p","i","e","c","e","s">>,
    <<"u","n","i","t">>, <<"u","n","i","t","s">> }

\* C6: a count n in 2..999 of one to three digits, followed by optional
\* whitespace and any of coin, coins, pcs, piece, pieces, unit, units, is
\* returned.
C6_EveryListedUnitWord ==
    pc = "qty_done" =>
        \A n \in { <<"5">>, <<"2","0">> } :
            \A sp \in { <<>>, <<" ">> } :
                \A w \in ListedUnitWords :
                    Lower(text) = n \o sp \o w => qty = DecVal(n)

----------------------------------------------------------------------------
(* Properties of extract_price_info and extract_price_from_url, checked    *)
(* under SpecPrice.                                                        *)

Returned == pc \in {"price_info", "price_done"}

AmountsOf(c) == { c[k].p : k \in 1..Len(c) }
VatAmountsOf(c) == { c[k].p : k \in { j \in 1..Len(c) : c[j].vat } }

\* C1: over a non-empty candidate list, prefer_vat selects the greatest
\* amount among the candidates flagged VAT, or the greatest amount of all
\* when none is flagged; without prefer_vat the least amount of all is
\* selected, whatever the flags.
C1_SelectionPolicy ==
    Returned /\ candidates # <<>> =>
        /\ info.present
        /\ info.price =
              IF prefer_vat
              THEN IF VatAmountsOf(candidates) # {}
                   THEN MaxOf(VatAmountsOf(candidates))
                   ELSE MaxOf(AmountsOf(candidates))
              ELSE MinOf(AmountsOf(candidates))

\* C1 witness: with prefer_vat, 120 pounds flagged VAT is selected although
\* a greater amount without flag is among the candidates.
C1_Witness ==
    /\ Returned
    /\ prefer_vat
    /\ info.present /\ info.price = 12000
    /\ \E k \in 1..Len(candidates) :
          ~candidates[k].vat /\ candidates[k].p > 12000
    /\ \E k \in 1..Len(candidates) :
          candidates[k].vat /\ candidates[k].p = 12000

\* the fetch did not succeed: a transport error, a timeout, a response whose
\* status is not a success, or content that cannot be parsed
FetchFailed ==
    \/ resp.kind = "error"
    \/ resp.kind = "http" /\ resp.status \notin 200..299
    \/ resp.kind = "http" /\ ~resp.parses

\* C2: after a failed fetch (network error, timeout, non-success response)
\* or a parsing failure the result is (absent, 1); no price comes from a page
\* whose fetch did not succeed.
C2_FailedFetchGivesNoPrice ==
    Returned /\ FetchFailed => info = NoInfo

\* the structured pass as the specification states it: an element counts
\* when its class or its id matches "price"
RECURSIVE StructuredEitherFrom(_, _)
StructuredEitherFrom(doc, e) ==
    IF e > Len(doc) THEN <<>>
    ELSE LET t == doc[e].text
             ms == FindIter(t, 1)
             here == IF (AttrMatches(doc[e].cls) \/ AttrMatches(doc[e].id))
                        /\ ms # <<>>
                     THEN <<[p |-> Pence(Slice(t, ms[1].from, ms[1].to)),
                             vat |-> ContainsNoCase(t, Vat)]>>
                     ELSE <<>>
         IN  here \o StructuredEitherFrom(doc, e + 1)

\* C5: every element whose class or whose id matches "price" (one of the two
\* suffices) and whose text holds a currency amount contributes one
\* candidate: the first amount of its text, flagged VAT iff "vat" occurs in
\* its text.  The candidates of the structured pass come first in the list.
C5_ClassOrIdSuffices ==
    Returned /\ ~Raises(resp) =>
        LET want == StructuredEitherFrom(resp.doc, 1)
        IN  /\ Len(candidates) >= Len(want)
            /\ SubSeq(candidates, 1, Len(want)) = want
            /\ Len(candidates) - Len(want) = Len(FindIter(GetText(resp.doc), 1))

\* C7: the wrapper returns absent exactly when the price is absent, and
\* otherwise the price divided by max(quantity, 1); the quantity is in
\* 1..999, the division never faults, so the raw-price fallback is never
\* taken, and the per-coin price never exceeds the total price.
C7_PerCoinPrice ==
    pc = "price_done" =>
        /\ unit.present <=> info.present
        /\ info.quantity \in 1..999
        /\ info.present =>
              /\ ~unit.raw
              /\ unit.den > 0
              /\ unit.num * (IF info.quantity > 1 THEN info.quantity ELSE 1)
                    = info.price * unit.den
              /\ unit.num <= info.price * unit.den

\* C7 witness: a total of 500 pounds for 20 coins gives 25 pounds per coin.
C7_Witness ==
    /\ pc = "price_done"
    /\ info.present /\ info.price = 50000 /\ info.quantity = 20
    /\ unit.present /\ unit.num = 2500 * unit.den

----------------------------------------------------------------------------
(* Properties of the batch loop, checked under SpecBatch.                  *)

\* the number of non-empty cells of column c down to row r: 1 for the first
\* non-empty cell below the header, 2 for the second, ...
Rank(c, r) ==
    Cardinality({ q \in 1..r : df[c].cells[q] # Empty })

NonEmpty(c) == { r \in 1..Len(df[c].cells) : df[c].cells[r] # Empty }

\* the loop is through with column c
Finished(c) ==
    \/ c < ci
    \/ c = ci /\ pc \in {"batch_loop", "batch_done"}

FetchesOf(c, role) ==
    { k \in 1..Len(fetched) : fetched[k].col = c /\ fetched[k].role = role }

\* C8 as stated: the first non-empty cell below the header is the one
\* fetched for the reference price, and the cells fetched as competitors are
\* the non-empty cells below it.
C8_FirstCellIsReference ==
    \A k \in 1..Len(fetched) :
        /\ fetched[k].role = "gc" => Rank(fetched[k].col, fetched[k].row) = 1
        /\ fetched[k].role = "comp" => Rank(fetched[k].col, fetched[k].row) >= 2

\* C8 as amended: the first non-empty cell below the header is never
\* fetched; the cell fetched for the reference price is the second non-empty
\* cell of its column, and the cells fetched as competitors come after it;
\* once the loop is through with a column of at least two non-empty cells,
\* the second has been fetched for the reference price and, when that price
\* is extracted and not zero, every non-empty cell after the second has been
\* fetched as a competitor.
C8_SecondCellIsReference ==
    /\ \A k \in 1..Len(fetched) :
          /\ fetched[k].role = "gc" => Rank(fetched[k].col, fetched[k].row) = 2
          /\ fetched[k].role = "comp" => Rank(fetched[k].col, fetched[k].row) >= 3
          /\ df[fetched[k].col].cells[fetched[k].row] # Empty
    /\ \A c \in 1..Len(df) :
          Finished(c) /\ Cardinality(NonEmpty(c)) >= 2 =>
              /\ Cardinality(FetchesOf(c, "gc")) = 1
              /\ \A k \in FetchesOf(c, "gc") :
                    Truthy(Scraped(df[c].cells[fetched[k].row], FALSE)) =>
                        \A r \in NonEmpty(c) :
                            Rank(c, r) >= 3 =>
                                \E j \in FetchesOf(c, "comp") : fetched[j].row = r

\* C8 witness: a finished column whose first row is empty and whose next
\* three cells are urls: the url of row 2 is not fetched, the url of row 3
\* is fetched for the reference price and the url of row 4 as a competitor.
C8_Witness ==
    /\ pc = "batch_done"
    /\ \E c \in 1..Len(df) :
          /\ Len(df[c].cells) = 4
          /\ df[c].cells[1] = Empty
          /\ \A r \in 2..4 : df[c].cells[r] \in {UrlPair, UrlFree}
          /\ \A k \in 1..Len(fetched) : fetched[k].col = c => fetched[k].row # 2
          /\ \E k \in FetchesOf(c, "gc") : fetched[k].row = 3
          /\ \E k \in FetchesOf(c, "comp") : fetched[k].row = 4

\* The rows the columns c..Len(tb) of a table are to contribute, in order:
\* none for a column with fewer than two non-empty cells or whose reference
\* price is absent, else one per competitor cell, with the competitor's
\* price.
RECURSIVE ExpectedFrom(_, _)
ExpectedFrom(tb, c) ==
    IF c > Len(tb) THEN <<>>
    ELSE LET cells == tb[c].cells
             rows == DropNa(cells)
             here ==
                 IF Len(rows) < 2 THEN <<>>
                 ELSE LET gc == Scraped(cells[rows[2]], FALSE)
                      IN  IF ~gc.present THEN <<>>
                          ELSE [k \in 1..(Len(rows) - 2) |->
                                  [Product |-> Strip(tb[c].header.name),
                                   GoldCoreURL |-> cells[rows[2]],
                                   CompetitorURL |-> cells[rows[k + 2]],
                                   CompetitorPrice |->
                                       Scraped(cells[rows[k + 2]], UseVat(tb[c].header))]]
         IN  here \o ExpectedFrom(tb, c + 1)

Keys(rs) ==
    [k \in 1..Len(rs) |->
        [Product |-> rs[k].Product,
         GoldCoreURL |-> rs[k].GoldCoreURL,
         CompetitorURL |-> rs[k].CompetitorURL,
         CompetitorPrice |-> rs[k].CompetitorPrice]]

\* C9: the batch never aborts: for every input table the loop is never left
\* by an exception and ends having visited every column; a cell is fetched
\* at most once, column after column; competitors are fetched only in a
\* column whose reference price is extracted; when the loop ends, a column
\* whose reference price is absent has contributed no row and a column whose
\* reference price is extracted has contributed one row per competitor url,
\* in cell order, with an absent competitor price where the competitor's
\* extraction fails.
C9_BatchNeverAborts ==
    /\ pc # "batch_crash"
    /\ pc = "batch_done" =>
          /\ ci = Len(df)
          /\ Keys(results) = ExpectedFrom(df, 1)
    /\ \A i, j \in 1..Len(fetched) :
          i < j =>
              /\ fetched[i].col <= fetched[j].col
              /\ <<fetched[i].col, fetched[i].row>> # <<fetched[j].col, fetched[j].row>>
    /\ \A k \in 1..Len(fetched) :
          fetched[k].role = "comp" =>
              \E g \in FetchesOf(fetched[k].col, "gc") :
                  /\ g < k
                  /\ Scraped(df[fetched[g].col].cells[fetched[g].row], FALSE).present

\* |v - n / d| <= 1/2: v is n / d rounded to a whole number
IsRounded(v, n, d) == 2 * Abs(v * d - n) <= d

\* C10: in every row the GoldCore price is present and not zero; the
\* difference and the percentage are present exactly when the competitor
\* price is present, and are then the competitor price minus the GoldCore
\* price and that difference over the GoldCore price times 100 (to two
\* decimals), also for a competitor price of 0.
C10_RowFields ==
    \A k \in 1..Len(results) :
        LET gc == results[k].GoldCorePrice
            comp == results[k].CompetitorPrice
            diff == results[k].Difference
            pct == results[k].PctDifference
            n == comp.num * gc.den - gc.num * comp.den
        IN  /\ gc.present /\ gc.num # 0
            /\ diff.present <=> comp.present
            /\ pct.present <=> comp.present
            /\ comp.present =>
                  /\ IsRounded(diff.v, n, comp.den * gc.den)
                  /\ LET g == Gcd(comp.den * gc.num, Abs(n))
                     IN  IsRounded(pct.v, 10000 * (n \div g),
                                   (comp.den * gc.num) \div g)

====
